---- MODULE Spec2Model ----
(***************************************************************************)
(* Model of the link-extraction run of abeauvois/my-links:                 *)
(*   - ExtractLinksUseCase.execute: main analysis pass, retry queue,       *)
(*     wait for the rate-limit reset, single retry pass, export;           *)
(*   - TwitterScraper: tweet cache, rate-limit gate, fetchWithRetry;       *)
(*   - the multi-cycle retry loop of LinkExtractionOrchestrator and        *)
(*     RetryHandlerService (their source is not part of the tree; only     *)
(*     QueuedLink.types.ts and ExtractLinksConfig are).                    *)
(* Time is in milliseconds, as Date.now().  Indexes are 1-based.           *)
(***************************************************************************)
EXTENDS Integers, Sequences, FiniteSets, TLC

\* ------------------------------------------------------------------------
\* Bounds of the model
\* ------------------------------------------------------------------------
\* longest list of parsed links of one run
MaxLinks == 2
\* value of Date.now() when the run starts
StartTime == 500
\* largest number of entries handed to the retry loop of the orchestrator
MaxQueued == 3

\* ------------------------------------------------------------------------
\* Program constants
\* ------------------------------------------------------------------------
MAX_WAIT_SECONDS == 900
RATE_LIMIT_BUFFER_MS == 5000
SLEEP_MS == 1000
\* default of the maxRetries parameter of fetchWithRetry
maxRetries == 2

MAX_RETRY_ATTEMPTS == 3

\* ------------------------------------------------------------------------
\* Inputs
\* ------------------------------------------------------------------------
\* tw1, tw2: tweet URLs (x.com/u/status/<id>); tco: a t.co short link;
\* web: a URL that is not a Twitter URL.
Urls == {"tw1", "tw2", "tco", "web"}
\* what a t.co link can resolve to: nothing, a tweet, a Twitter page
\* without status id
Resolutions == {"null", "tw1", "profile"}
\* HTTP outcomes of one request to the Twitter API
\* (r429: 429 with an x-rate-limit-reset header, r429bare: 429 without)
Responses == {"ok", "okNoText", "r429", "r429bare", "r401", "r403", "r404", "r500", "neterr"}
\* the responses in a run of the use case: those that end fetchWithRetry at
\* the first request
FinalResponses == {"ok", "okNoText", "r429", "r429bare", "r401", "r403", "r404"}
\* x-rate-limit-reset header of a 429, in seconds after the current second
ResetHeaders == {5, 900, 901}
\* results of ILinkAnalyzer.analyze: a tag, or a thrown error
Analyses == {"Unknown", "Tech", "throw"}
\* outcome of a write to an export sink
SinkOutcomes == {"ok", "throw"}

NULL == "null"

\* an e-mail file: the links the parser finds in its content, or the parser
\* throwing on it
EmailFile(links, parses) == [content |-> links, parses |-> parses]

EmailFiles ==
    {EmailFile(<<u>>, "ok") : u \in Urls}
        \cup {EmailFile(<<>>, "ok"), EmailFile(<<"web", "tw1">>, "ok"),
              EmailFile(<<>>, "throw")}

VARIABLES
    pc,                 \* position of execute()
    now,                \* Date.now()
    emailFiles,         \* the e-mail files extracted from the archive
    emailLinks,         \* links parsed from the e-mails
    i,                  \* loop variable of analyzeLinks
    categorizedLinks,   \* the result collection
    retryQueue,         \* QueuedLink[] of ExtractLinksUseCase
    tweetContent,       \* result of the last fetchTweetContent
    ret,                \* caller of the running fetchTweetContent
    curUrl,             \* argument of the running fetchTweetContent
    tweetId,            \* tweet id of the running fetchWithRetry
    attempt,            \* loop variable of fetchWithRetry
    rateLimitResetTime, \* TwitterScraper.rateLimitResetTime
    tweetCache,         \* TwitterScraper.tweetCache (ids with content)
    waitSeconds,        \* local of handleRetryQueue
    endWait,            \* local of waitForRateLimitReset
    ri,                 \* loop variable of retryQueuedLinks
    updatedUrls,        \* Set<string> of retryQueuedLinks
    updatedArg,         \* updatedUrls parameter of exportResults
    csvLog,             \* calls of csvWriter.write
    notionLog,          \* calls of notionWriter.write
    updateLog,          \* calls of notionWriter.updatePages
    hist,               \* observations of the run (no program state)
    orch,               \* the retry loop of LinkExtractionOrchestrator
    ing,                \* a run of ingest(config) of a data source
    wf,                 \* a run of the WorkflowExecutor
    repo,               \* a FileTimestampRepository and its file
    factory             \* a call of DataSourceFactory.create

vars == <<pc, now, emailFiles, emailLinks, i, categorizedLinks, retryQueue, tweetContent,
          ret, curUrl, tweetId, attempt, rateLimitResetTime, tweetCache,
          waitSeconds, endWait, ri, updatedUrls, updatedArg, csvLog,
          notionLog, updateLog, hist, orch, ing, wf, repo, factory>>

\* ------------------------------------------------------------------------
\* Pure helpers
\* ------------------------------------------------------------------------
\* Math.ceil(a / b) for b > 0
CeilDiv(a, b) == -((-a) \div b)

Min(a, b) == IF a < b THEN a ELSE b

SeqsUpTo(S, n) == UNION {[1..k -> S] : k \in 0..n}

\* extractLinks of the parser, on a content seen as the links it holds
extractLinks(rawContent) == rawContent

\* EmailLink(url, '', '', filename)
EmailLink(url) == [url |-> url, tag |-> "", description |-> ""]

withCategorization(link, tag, description) ==
    [url |-> link.url, tag |-> tag, description |-> description]

isComplete(link) == link.url # "" /\ link.tag # "" /\ link.description # ""

isTwitterUrl(url) == url \in {"tw1", "tw2", "tco", "profile"}

\* the /status/<id> part of a Twitter URL
extractTweetId(url) ==
    CASE url = "tw1" -> "id1"
      [] url = "tw2" -> "id2"
      [] OTHER -> NULL

isRateLimited(resetTime, t) == resetTime > t

\* description returned by the analyzer along with a tag
DescriptionOf(tag) == "about " \o tag

\* ------------------------------------------------------------------------
\* Initial state
\* ------------------------------------------------------------------------
\* the retry loop of the orchestrator, not running
OrchIdle == [pc |-> "idle"]

\* no ingestion running
IngestIdle == [pc |-> "idle"]

\* no workflow running
WorkflowIdle == [pc |-> "idle"]

\* no timestamp repository constructed
RepoIdle == [pc |-> "idle"]

\* DataSourceFactory not called
FactoryIdle == [pc |-> "idle"]

\* the use case before parseEmailLinks, with the e-mail files given
InitWith(position, files) ==
    /\ pc = position
    /\ now = StartTime
    /\ emailFiles = files
    /\ emailLinks = <<>>
    /\ i = 1
    /\ categorizedLinks = <<>>
    /\ retryQueue = <<>>
    /\ tweetContent = NULL
    /\ ret = "none"
    /\ curUrl = NULL
    /\ tweetId = NULL
    /\ attempt = 0
    /\ rateLimitResetTime = 0
    /\ tweetCache = {}
    /\ waitSeconds = 0
    /\ endWait = 0
    /\ ri = 1
    /\ updatedUrls = {}
    /\ updatedArg = [given |-> FALSE, urls |-> {}]
    /\ csvLog = <<>>
    /\ notionLog = <<>>
    /\ updateLog = <<>>
    /\ hist = [fetchOutcome |-> <<>>,   \* per result index: how its fetch ended
               threw        |-> <<>>,   \* per result index: did analyze throw
               checks       |-> 0,      \* evaluations of the wait ceiling
               lastOutcome  |-> "none", \* how the last fetchTweetContent ended
               mainResult   |-> <<>>,   \* result collection after the main pass
               skipped      |-> FALSE,  \* wait-ceiling skip taken
               waits        |-> 0,      \* waits for the rate-limit reset
               clears       |-> 0,      \* calls of clearRateLimit
               retryCalls   |-> <<>>,   \* retryLink calls: queue position, time
               succeeded    |-> {},     \* queue positions whose retry succeeded
               waitReset    |-> 0,      \* reset time the wait was computed from
               requests     |-> 0,      \* API requests of the last fetchTweetContent
               response     |-> "none"] \* last response of the last fetchTweetContent

Init ==
    /\ \E files \in SeqsUpTo(EmailFiles, MaxLinks) : InitWith("parseEmailLinks", files)
    /\ orch = OrchIdle
    /\ ing = IngestIdle
    /\ wf = WorkflowIdle
    /\ repo = RepoIdle
    /\ factory = FactoryIdle

\* ------------------------------------------------------------------------
\* ExtractLinksUseCase: parsing
\* ------------------------------------------------------------------------
\* the links parseEmailLinks makes of the files: the first link of every
\* file that holds one, in the order of the files
RECURSIVE ParsedLinks(_)
ParsedLinks(files) ==
    IF files = <<>> THEN <<>>
    ELSE LET links == extractLinks(Head(files).content)
         IN  IF Len(links) > 0
             THEN <<EmailLink(links[1])>> \o ParsedLinks(Tail(files))
             ELSE ParsedLinks(Tail(files))

\* parseEmailLinks: every file goes through the parser; when the parser
\* throws on a file nothing catches the error and execute rejects
parseEmailLinks ==
    /\ pc = "parseEmailLinks"
    /\ IF \E k \in DOMAIN emailFiles : emailFiles[k].parses = "throw"
       THEN /\ pc' = "rejected"
            /\ UNCHANGED <<emailFiles, emailLinks>>
       ELSE /\ pc' = "analyzeLinks"
            /\ emailLinks' = ParsedLinks(emailFiles)
            \* the map of files is not used after this point
            /\ emailFiles' = <<>>
    /\ UNCHANGED <<now, i, categorizedLinks, retryQueue, tweetContent, ret, curUrl,
                   tweetId, attempt, rateLimitResetTime, tweetCache, waitSeconds,
                   endWait, ri, updatedUrls, updatedArg, csvLog, notionLog,
                   updateLog, hist>>
    /\ UNCHANGED <<orch, ing, wf, repo, factory>>

\* ------------------------------------------------------------------------
\* TwitterScraper
\* ------------------------------------------------------------------------
\* fetchTweetContent returns c to its caller
Return(c, outcome) ==
    /\ tweetContent' = c
    /\ pc' = ret
    /\ hist' = [hist EXCEPT !.lastOutcome = outcome, !.requests = 0,
                            !.response = "none"]

\* fetchTweetContent up to the call of fetchWithRetry
fetchTweetContent ==
    /\ pc = "fetchTweetContent"
    /\ \E resolved \in Resolutions :
         LET resolvedUrl == IF curUrl = "tco" THEN resolved ELSE curUrl
             id == extractTweetId(resolvedUrl)
         IN  IF resolvedUrl = NULL
             THEN Return(NULL, "failed") /\ UNCHANGED <<tweetId, attempt>>
             ELSE IF id = NULL
             THEN Return(NULL, "failed") /\ UNCHANGED <<tweetId, attempt>>
             ELSE IF id \in tweetCache
             THEN Return(id, "content") /\ UNCHANGED <<tweetId, attempt>>
             ELSE IF rateLimitResetTime > now
             THEN Return(NULL, "rateLimited") /\ UNCHANGED <<tweetId, attempt>>
             ELSE /\ pc' = "fetchWithRetry"
                  /\ tweetId' = id
                  /\ attempt' = 0
                  /\ hist' = [hist EXCEPT !.requests = 0, !.response = "none"]
                  /\ UNCHANGED tweetContent
    /\ UNCHANGED <<now, emailLinks, i, categorizedLinks, retryQueue, ret, curUrl,
                   rateLimitResetTime, tweetCache, waitSeconds, endWait, ri,
                   updatedUrls, updatedArg, csvLog, notionLog, updateLog>>
    /\ UNCHANGED <<emailFiles, orch, ing, wf, repo, factory>>

\* delay before attempt a of fetchWithRetry
RetryDelay(a) == IF a > 0 THEN Min(1000 * 2 ^ (a - 1), 5000) ELSE 0

\* one more attempt than maxRetries allows
RetriesOnceMore(r, a) == r \in {"r500", "neterr"} /\ a < maxRetries + 1

\* does fetchWithRetry go on to another attempt after response r?
RetriesAfter(r, a) ==
    \/ r = "r500" /\ a < maxRetries
    \/ r = "neterr" /\ a # maxRetries

\* how fetchTweetContent ends when the last response is r
OutcomeOf(r) ==
    CASE r = "ok" -> "content"
      [] r \in {"r429", "r429bare"} -> "rateLimited"
      [] OTHER -> "failed"

\* what fetchWithRetry returns on a last response r for tweet id: the text
\* of the tweet (seen as its id) when the response is ok and carries one
ContentOf(r, id) == IF r = "ok" THEN id ELSE NULL

\* every 429 taken as carrying a reset time
ResetOnAny429(r, header, resetTime) ==
    IF r \in {"r429", "r429bare"} THEN header * 1000 ELSE resetTime

\* rateLimitResetTime after response r; header is the x-rate-limit-reset
\* value (seconds) of a 429 that carries one
ResetTimeAfter(r, header, resetTime) ==
    IF r = "r429" THEN header * 1000 ELSE resetTime

\* every result of fetchWithRetry cached
CachesAnyResult(cache, id, content) == cache \cup {id}

\* tweetCache after fetchWithRetry returned content for tweet id
CacheAfter(cache, id, content) ==
    IF content # NULL THEN cache \cup {id} ELSE cache

\* one iteration of the loop of fetchWithRetry: delay, request, response
\* (the response drawn from R)
fetchWithRetryOn(R) ==
    /\ pc = "fetchWithRetry"
    /\ \E r \in R, h \in ResetHeaders :
         \* one header value is enough when the response carries none
         /\ (r # "r429" => h = 5)
         /\ now' = now + RetryDelay(attempt)
         /\ rateLimitResetTime' =
                ResetTimeAfter(r, (now' \div 1000) + h, rateLimitResetTime)
         /\ IF RetriesAfter(r, attempt)
            THEN /\ attempt' = attempt + 1
                 /\ hist' = [hist EXCEPT !.requests = @ + 1, !.response = r]
                 /\ UNCHANGED <<pc, tweetContent, tweetCache, tweetId>>
            ELSE /\ attempt' = 0
                 /\ tweetId' = NULL
                 /\ tweetContent' = ContentOf(r, tweetId)
                 /\ tweetCache' = CacheAfter(tweetCache, tweetId, tweetContent')
                 /\ pc' = ret
                 /\ hist' = [hist EXCEPT !.lastOutcome = OutcomeOf(r),
                                         !.requests = @ + 1,
                                         !.response = r]
    /\ UNCHANGED <<emailLinks, i, categorizedLinks, retryQueue, ret, curUrl,
                   waitSeconds, endWait, ri, updatedUrls, updatedArg,
                   csvLog, notionLog, updateLog>>
    /\ UNCHANGED <<emailFiles, orch, ing, wf, repo, factory>>

fetchWithRetry == fetchWithRetryOn(FinalResponses)

\* rateLimitResetTime after clearRateLimit()
clearRateLimit == 0

\* ------------------------------------------------------------------------
\* ExtractLinksUseCase: main pass
\* ------------------------------------------------------------------------
scraperVars == <<tweetId, attempt, rateLimitResetTime, tweetCache>>
retryVars == <<waitSeconds, endWait, ri, updatedUrls>>
exportVars == <<updatedArg, csvLog, notionLog, updateLog>>

\* loop head of analyzeLinks and first half of analyzeLink: a Twitter URL
\* has its tweet fetched first
analyzeLinks ==
    /\ pc = "analyzeLinks"
    /\ i <= Len(emailLinks)
    /\ IF isTwitterUrl(emailLinks[i].url)
       THEN /\ pc' = "fetchTweetContent"
            /\ ret' = "analyzeLink"
            /\ curUrl' = emailLinks[i].url
            /\ UNCHANGED <<tweetContent, hist>>
       ELSE /\ pc' = "analyzeLink"
            /\ tweetContent' = NULL
            /\ hist' = [hist EXCEPT !.lastOutcome = "notTwitter"]
            /\ UNCHANGED <<ret, curUrl>>
    /\ UNCHANGED <<now, emailLinks, i, categorizedLinks, retryQueue>>
    /\ UNCHANGED <<scraperVars, retryVars, exportVars>>
    /\ UNCHANGED <<emailFiles, orch, ing, wf, repo, factory>>

\* a link queued whenever its tweet is missing
QueuesWithoutRateLimit(url, tag, content, resetTime, t) ==
    isTwitterUrl(url) /\ tag = "Unknown" /\ content = NULL

\* the queueing condition of analyzeLink
shouldRetry(url, tag, content, resetTime, t) ==
    /\ isTwitterUrl(url)
    /\ tag = "Unknown"
    /\ content = NULL
    /\ isRateLimited(resetTime, t)

\* a link whose analysis threw left out of the result collection
DropsFailedLink(links, link) == links

\* the result collection after the catch block of analyzeLinks
OnAnalysisError(links, link) == Append(links, link)

\* second half of analyzeLink and the rest of the loop body of analyzeLinks
\* (the result of the analyzer drawn from A)
analyzeLinkOn(A) ==
    /\ pc = "analyzeLink"
    /\ \E a \in A :
         LET link == emailLinks[i]
             categorized == withCategorization(link, a, DescriptionOf(a))
         IN  /\ IF a = "throw"
                THEN /\ categorizedLinks' = OnAnalysisError(categorizedLinks, link)
                     /\ UNCHANGED retryQueue
                ELSE /\ categorizedLinks' = Append(categorizedLinks, categorized)
                     /\ retryQueue' =
                          IF shouldRetry(link.url, a, tweetContent, rateLimitResetTime, now)
                          THEN Append(retryQueue,
                                      [link |-> link, index |-> Len(categorizedLinks')])
                          ELSE retryQueue
             /\ hist' = [hist EXCEPT !.fetchOutcome = Append(@, hist.lastOutcome),
                                     !.threw = Append(@, a = "throw"),
                                     !.requests = 0, !.response = "none"]
    /\ i' = i + 1
    /\ pc' = "analyzeLinks"
    /\ UNCHANGED <<now, emailLinks, tweetContent, ret, curUrl>>
    /\ UNCHANGED <<scraperVars, retryVars, exportVars>>
    /\ UNCHANGED <<emailFiles, orch, ing, wf, repo, factory>>

analyzeLink == analyzeLinkOn(Analyses)

\* the main pass left as soon as an item is queued
ReturnsAtFirstQueued(idx, links, queue) == idx > Len(links) \/ Len(queue) > 0

\* analyzeLinks returns when its loop has gone over every link
analyzeLinksReturns(idx, links, queue) == idx > Len(links)

\* the retry queue never handled
NeverRetries(queue) == FALSE

\* the test of execute on the retry queue
NeedsRetry(queue) == Len(queue) > 0

\* execute, after analyzeLinks has returned
execute ==
    /\ pc = "analyzeLinks"
    /\ analyzeLinksReturns(i, emailLinks, retryQueue)
    /\ pc' = IF NeedsRetry(retryQueue) THEN "handleRetryQueue" ELSE "exportResults"
    /\ updatedArg' = [given |-> FALSE, urls |-> {}]
    /\ hist' = [hist EXCEPT !.mainResult = categorizedLinks]
    /\ UNCHANGED <<now, emailLinks, i, categorizedLinks, retryQueue, tweetContent,
                   ret, curUrl, csvLog, notionLog, updateLog>>
    /\ UNCHANGED <<scraperVars, retryVars>>
    /\ UNCHANGED <<emailFiles, orch, ing, wf, repo, factory>>

\* ------------------------------------------------------------------------
\* ExtractLinksUseCase: retry pass
\* ------------------------------------------------------------------------
mainVars == <<emailLinks, i>>

\* seconds until the rate limit resets
getRateLimitWaitTime(resetTime, t) == CeilDiv(resetTime - t, 1000)

\* the ceiling test with the ceiling itself taken as too long
ExceedsOrReachesCeiling(seconds) == seconds >= MAX_WAIT_SECONDS

\* the wait-ceiling test of handleRetryQueue
ExceedsCeiling(seconds) == seconds > MAX_WAIT_SECONDS

\* handleRetryQueue up to its first await
handleRetryQueue ==
    /\ pc = "handleRetryQueue"
    /\ waitSeconds' = getRateLimitWaitTime(rateLimitResetTime, now)
    /\ IF ExceedsCeiling(waitSeconds')
       THEN /\ pc' = "exportResults"
            /\ updatedArg' = [given |-> FALSE, urls |-> {}]
            /\ hist' = [hist EXCEPT !.skipped = TRUE, !.checks = @ + 1]
       ELSE /\ pc' = "waitForRateLimitReset"
            /\ hist' = [hist EXCEPT !.checks = @ + 1]
            /\ UNCHANGED updatedArg
    /\ UNCHANGED <<now, categorizedLinks, retryQueue, tweetContent, ret, curUrl,
                   endWait, ri, updatedUrls, csvLog, notionLog, updateLog>>
    /\ UNCHANGED <<mainVars, scraperVars>>
    /\ UNCHANGED <<emailFiles, orch, ing, wf, repo, factory>>

\* the wait window without the safety buffer
EndWaitAtReset(resetTime) == resetTime

\* end of the wait window
EndWait(resetTime) == resetTime + RATE_LIMIT_BUFFER_MS

\* the clock when the loop of waitForRateLimitReset ends: it sleeps SLEEP_MS
\* while Date.now() < endWait, so it ends at the first t + k * SLEEP_MS that
\* is not before end
WaitLoop(t, end) ==
    IF t < end THEN t + SLEEP_MS * CeilDiv(end - t, SLEEP_MS) ELSE t

\* one timer for every queued entry
WaitsPerEntry(queue) == Len(queue)

\* the waits handleRetryQueue makes for the queue: waitForRateLimitReset is
\* awaited once, whatever the queue holds
WaitsFor(queue) == 1

\* waitForRateLimitReset, then the start of retryQueuedLinks
waitForRateLimitReset ==
    /\ pc = "waitForRateLimitReset"
    /\ endWait' = EndWait(rateLimitResetTime)
    /\ now' = WaitLoop(now, endWait')
    /\ rateLimitResetTime' = clearRateLimit
    /\ pc' = "retryQueuedLinks"
    /\ ri' = 1
    /\ updatedUrls' = {}
    /\ hist' = [hist EXCEPT !.waits = @ + WaitsFor(retryQueue), !.clears = @ + 1,
                            !.waitReset = rateLimitResetTime]
    /\ UNCHANGED <<categorizedLinks, retryQueue, tweetContent, ret, curUrl,
                   tweetId, attempt, tweetCache, waitSeconds>>
    /\ UNCHANGED <<mainVars, exportVars>>
    /\ UNCHANGED <<emailFiles, orch, ing, wf, repo, factory>>

\* loop head of retryQueuedLinks: retryLink fetches the tweet of the next entry
retryQueuedLinks ==
    /\ pc = "retryQueuedLinks"
    /\ ri <= Len(retryQueue)
    /\ pc' = "fetchTweetContent"
    /\ ret' = "retryLink"
    /\ curUrl' = retryQueue[ri].link.url
    /\ hist' = [hist EXCEPT !.retryCalls = Append(@, [pos |-> ri, at |-> now])]
    /\ UNCHANGED <<now, categorizedLinks, retryQueue, tweetContent>>
    /\ UNCHANGED <<mainVars, scraperVars, retryVars, exportVars>>
    /\ UNCHANGED <<emailFiles, orch, ing, wf, repo, factory>>

\* the enriched item appended instead of written in place
WriteBackAppended(links, q, enriched) == Append(links, enriched)

\* the result collection after a successful retry of entry q
WriteBack(links, q, enriched) == [links EXCEPT ![q.index] = enriched]

\* the set restarted at every success
AddUpdatedAlone(urls, q) == {q.link.url}

\* updatedUrls after a successful retry of entry q
AddUpdated(urls, q) == urls \cup {q.link.url}

\* an error of a retry let out of the run
UncaughtRetryError == "failed"

\* where retryQueuedLinks goes on after its catch block
CaughtRetryError == "retryQueuedLinks"

\* rest of retryLink and of the loop body of retryQueuedLinks
retryLink ==
    /\ pc = "retryLink"
    /\ \E a \in Analyses :
         LET q == retryQueue[ri]
             enriched == withCategorization(q.link, a, DescriptionOf(a))
         IN  IF tweetContent = NULL
             THEN \* retryLink returns null; analyze is not called
                  /\ a = "throw"
                  /\ pc' = "retryQueuedLinks"
                  /\ hist' = [hist EXCEPT !.requests = 0, !.response = "none"]
                  /\ UNCHANGED <<categorizedLinks, updatedUrls>>
             ELSE IF a = "throw"
             THEN /\ pc' = CaughtRetryError
                  /\ hist' = [hist EXCEPT !.requests = 0, !.response = "none"]
                  /\ UNCHANGED <<categorizedLinks, updatedUrls>>
             ELSE /\ categorizedLinks' = WriteBack(categorizedLinks, q, enriched)
                  /\ updatedUrls' = AddUpdated(updatedUrls, q)
                  /\ pc' = "retryQueuedLinks"
                  /\ hist' = [hist EXCEPT !.succeeded = @ \cup {ri},
                                          !.requests = 0, !.response = "none"]
    /\ ri' = ri + 1
    /\ UNCHANGED <<now, retryQueue, tweetContent, ret, curUrl, waitSeconds, endWait>>
    /\ UNCHANGED <<mainVars, scraperVars, exportVars>>
    /\ UNCHANGED <<emailFiles, orch, ing, wf, repo, factory>>

\* ------------------------------------------------------------------------
\* ExtractLinksUseCase: export
\* ------------------------------------------------------------------------
\* handleRetryQueue after retryQueuedLinks: the CSV is written, then
\* exportResults is called with the updated URLs
updateCsv ==
    /\ pc = "retryQueuedLinks"
    /\ ri > Len(retryQueue)
    /\ \E o \in SinkOutcomes :
         /\ csvLog' = Append(csvLog, [links |-> categorizedLinks, outcome |-> o])
         /\ pc' = IF o = "ok" THEN "exportResults" ELSE "failed"
    /\ updatedArg' = [given |-> TRUE, urls |-> updatedUrls]
    /\ UNCHANGED <<now, categorizedLinks, retryQueue, tweetContent, ret, curUrl,
                   notionLog, updateLog, hist>>
    /\ UNCHANGED <<mainVars, scraperVars, retryVars>>
    /\ UNCHANGED <<emailFiles, orch, ing, wf, repo, factory>>

\* exportResults: the CSV write
exportResults ==
    /\ pc = "exportResults"
    /\ \E o \in SinkOutcomes :
         /\ csvLog' = Append(csvLog, [links |-> categorizedLinks, outcome |-> o])
         /\ pc' = IF o = "ok" THEN "notionWrite" ELSE "failed"
    /\ UNCHANGED <<now, categorizedLinks, retryQueue, tweetContent, ret, curUrl,
                   updatedArg, notionLog, updateLog, hist>>
    /\ UNCHANGED <<mainVars, scraperVars, retryVars>>
    /\ UNCHANGED <<emailFiles, orch, ing, wf, repo, factory>>

\* does exportResults call updatePages after the Notion write?
UpdatesPages(arg) == arg.given /\ Cardinality(arg.urls) > 0

\* an error of the Notion sink let out of exportResults
UncaughtNotionError == "failed"

\* where the run is after the catch block of exportResults: the export has
\* returned normally
CaughtNotionError == "done"

\* exportResults: the Notion write; a failure is caught
notionWrite ==
    /\ pc = "notionWrite"
    /\ \E o \in SinkOutcomes :
         /\ notionLog' = Append(notionLog, [links |-> categorizedLinks, outcome |-> o])
         /\ pc' = IF o = "throw" THEN CaughtNotionError
                  ELSE IF UpdatesPages(updatedArg) THEN "updatePages"
                  ELSE "done"
    /\ UNCHANGED <<now, categorizedLinks, retryQueue, tweetContent, ret, curUrl,
                   updatedArg, csvLog, updateLog, hist>>
    /\ UNCHANGED <<mainVars, scraperVars, retryVars>>
    /\ UNCHANGED <<emailFiles, orch, ing, wf, repo, factory>>

\* exportResults: updatePages for the enriched entries; a failure is caught
updatePages ==
    /\ pc = "updatePages"
    /\ \E o \in SinkOutcomes :
         /\ updateLog' = Append(updateLog, [links |-> categorizedLinks,
                                            urls |-> updatedArg.urls, outcome |-> o])
         /\ pc' = IF o = "throw" THEN CaughtNotionError ELSE "done"
    /\ UNCHANGED <<now, categorizedLinks, retryQueue, tweetContent, ret, curUrl,
                   updatedArg, csvLog, notionLog, hist>>
    /\ UNCHANGED <<mainVars, scraperVars, retryVars>>
    /\ UNCHANGED <<emailFiles, orch, ing, wf, repo, factory>>

\* ------------------------------------------------------------------------
\* The run of ExtractLinksUseCase
\* ------------------------------------------------------------------------
Next ==
    \/ parseEmailLinks
    \/ analyzeLinks
    \/ analyzeLink
    \/ fetchTweetContent
    \/ fetchWithRetry
    \/ execute
    \/ handleRetryQueue
    \/ waitForRateLimitReset
    \/ retryQueuedLinks
    \/ retryLink
    \/ updateCsv
    \/ exportResults
    \/ notionWrite
    \/ updatePages

Spec == Init /\ [][Next]_vars

\* every step of the run that can be taken is eventually taken
FairSpec == Spec /\ WF_vars(Next)

TypeOK ==
    /\ pc \in {"parseEmailLinks", "rejected", "analyzeLinks", "analyzeLink", "fetchTweetContent", "fetchWithRetry",
               "handleRetryQueue", "waitForRateLimitReset", "retryQueuedLinks",
               "retryLink", "exportResults", "notionWrite", "updatePages",
               "done", "failed"}
    /\ now \in Nat
    /\ Len(categorizedLinks) <= Len(emailLinks)

\* ------------------------------------------------------------------------
\* Properties of the run of ExtractLinksUseCase
\* ------------------------------------------------------------------------
\* analyzeLinks has returned
MainPassOver ==
    i > Len(emailLinks) /\ pc \notin {"parseEmailLinks", "rejected", "analyzeLinks"}

\* the positions of the retry queue whose retry has been started
Retried == {hist.retryCalls[k].pos : k \in DOMAIN hist.retryCalls}

\* the result indexes held by the retry queue
QueuedIndexes == {retryQueue[p].index : p \in DOMAIN retryQueue}

\* C1: when the retry queue is not empty and the reset is more than
\* MAX_WAIT_SECONDS away, handleRetryQueue does not wait, does not retry and
\* does not clear the rate limit, the result collection stays as the main
\* pass left it, and the run goes straight to the export; in the other case
\* it waits; the ceiling is evaluated once, before any wait.
WaitCeilingSkip ==
    /\ hist.checks <= 1
    /\ pc = "handleRetryQueue" => hist.checks = 0 /\ hist.waits = 0
    /\ hist.waits > 0 => hist.checks = 1 /\ ~hist.skipped
    /\ pc = "waitForRateLimitReset" =>
          /\ ~hist.skipped
          /\ rateLimitResetTime - now <= MAX_WAIT_SECONDS * 1000
    /\ hist.skipped =>
          /\ Len(retryQueue) > 0
          /\ rateLimitResetTime - now > MAX_WAIT_SECONDS * 1000
          /\ hist.waits = 0 /\ hist.clears = 0 /\ hist.retryCalls = <<>>
          /\ categorizedLinks = hist.mainResult
          /\ ~updatedArg.given
          /\ pc \in {"exportResults", "notionWrite", "done", "failed"}
          /\ \A k \in DOMAIN csvLog : csvLog[k].links = hist.mainResult

\* the ceiling skip was taken and the export has run to its end
SkippedAndExported ==
    /\ hist.skipped
    /\ pc = "done"
    /\ Len(retryQueue) > 0
    /\ Len(notionLog) = 1

\* C2: no retryLink call of the retry pass starts before the clock has
\* reached the reset time the rate limiter reported plus the buffer.
NoEarlyRetry ==
    /\ hist.retryCalls # <<>> => hist.waits = 1
    /\ \A k \in DOMAIN hist.retryCalls :
          hist.retryCalls[k].at >= hist.waitReset + RATE_LIMIT_BUFFER_MS

\* a retry has been made after a wait for a reset that lay ahead
RetriedAfterWait ==
    /\ Len(hist.retryCalls) > 0
    /\ hist.waitReset > StartTime
    /\ pc = "retryLink"

\* C6: the retry pass changes the result collection only at the index of
\* an entry whose retry succeeded, where the new element has the url of the
\* old one; length, order and all other positions stay as the main pass
\* left them.
InPlaceWriteBack ==
    MainPassOver =>
      /\ Len(categorizedLinks) = Len(hist.mainResult)
      /\ \A k \in DOMAIN categorizedLinks :
            /\ categorizedLinks[k].url = hist.mainResult[k].url
            /\ categorizedLinks[k].url = emailLinks[k].url
            /\ (\A p \in hist.succeeded : retryQueue[p].index # k)
                  => categorizedLinks[k] = hist.mainResult[k]
            /\ (\E p \in hist.succeeded : retryQueue[p].index = k)
                  => /\ categorizedLinks[k].tag \in Analyses \ {"throw"}
                     /\ isComplete(categorizedLinks[k])

\* the retry pass is over; one entry was enriched and another one was not
OneEnrichedOneNot ==
    /\ pc = "done"
    /\ hist.succeeded # {}
    /\ Retried \ hist.succeeded # {}

QueueAdmission ==
    \A k \in DOMAIN categorizedLinks :
      /\ k \in QueuedIndexes => hist.fetchOutcome[k] = "rateLimited" /\ ~hist.threw[k]
      /\ hist.fetchOutcome[k] = "rateLimited" /\ ~hist.threw[k] => k \in QueuedIndexes

\* a retry outcome never raises out of the run: the run fails only in a
\* write of the CSV sink
FailsOnlyInCsvWrite ==
    pc = "failed" => csvLog # <<>> /\ csvLog[Len(csvLog)].outcome = "throw"

\* the export has been reached: the first sink has been called
ExportReached == Len(csvLog) > 0

\* C9: every run that completes the main pass reaches the export, whatever
\* the retry pass did, and no retry outcome makes the run fail.
ExportAlwaysProceeds ==
    /\ MainPassOver ~> ExportReached
    /\ []FailsOnlyInCsvWrite

\* the export was reached after a retry pass in which no entry was enriched
ExportedAfterFailedRetries ==
    /\ ExportReached
    /\ Len(hist.retryCalls) > 0
    /\ Len(hist.retryCalls) = Len(retryQueue)
    /\ hist.succeeded = {}

\* C10: a run that ends has called the write of each sink exactly once, and
\* no sink is written before the main pass and the retry pass are over.
ExportOncePerRun ==
    /\ pc = "done" => Len(csvLog) = 1 /\ Len(notionLog) = 1
    /\ csvLog # <<>> => MainPassOver /\ (hist.waits > 0 => ri > Len(retryQueue))

\* the last call of the Notion sink (write or updatePages) failed
SecondarySinkFailed ==
    \/ notionLog # <<>> /\ notionLog[Len(notionLog)].outcome = "throw"
    \/ updateLog # <<>> /\ updateLog[Len(updateLog)].outcome = "throw"

\* C11: when the Notion write or updatePages fails after the CSV write has
\* succeeded, the failure is caught and the export returns normally: the run
\* is complete, the CSV written last holds the result collection, and the
\* CSV sink is not written again.
PartialExportFailure ==
    /\ [](SecondarySinkFailed =>
            /\ pc = "done"
            /\ csvLog # <<>>
            /\ csvLog[Len(csvLog)].outcome = "ok"
            /\ csvLog[Len(csvLog)].links = categorizedLinks)
    /\ [][SecondarySinkFailed => csvLog' = csvLog]_vars

\* the Notion sink failed on a result collection that is not empty, after
\* the CSV write succeeded
NotionFailedAfterCsv ==
    /\ SecondarySinkFailed
    /\ Len(categorizedLinks) > 0
    /\ csvLog[Len(csvLog)].outcome = "ok"

\* C12: a failure of the CSV write, like a failure of the Notion write,
\* does not raise out of the export step and does not keep the other sink
\* from being attempted.
SinkGranularityRecovery ==
    /\ pc # "failed"
    /\ (pc = "done" /\ \E k \in DOMAIN csvLog : csvLog[k].outcome = "throw")
          => notionLog # <<>>

\* C13: every append to the result collection is made by the main pass
\* before any retry has started, and every in-place overwrite is made by the
\* retry pass after the main pass has appended an element for every link.
WriterOrdering ==
    [][/\ Len(categorizedLinks') > Len(categorizedLinks) =>
             /\ pc = "analyzeLink"
             /\ categorizedLinks' = Append(categorizedLinks, categorizedLinks'[i])
             /\ hist.waits = 0 /\ hist.retryCalls = <<>>
       /\ (categorizedLinks' # categorizedLinks
            /\ Len(categorizedLinks') <= Len(categorizedLinks)) =>
             /\ pc = "retryLink"
             /\ Len(categorizedLinks') = Len(categorizedLinks)
             /\ Len(categorizedLinks) = Len(emailLinks)
             /\ i > Len(emailLinks)]_vars

\* a retry has overwritten an element of a result collection of two or more
OverwrittenAfterAppends ==
    /\ hist.succeeded # {}
    /\ Len(categorizedLinks) >= 2
    /\ categorizedLinks # hist.mainResult

\* C14: the retry pass makes exactly one wait for the reset, whatever the
\* number of queued entries; the wait is over before the first entry is
\* retried and no wait is made between two entries.
SingleSharedWait ==
    /\ [](/\ hist.waits <= 1
          /\ hist.retryCalls # <<>> => hist.waits = 1)
    /\ [][hist.waits' # hist.waits =>
             /\ pc = "waitForRateLimitReset"
             /\ hist.retryCalls = <<>>
             /\ now' >= now]_vars

\* two queued entries have been retried after one wait
TwoRetriedOneWait ==
    /\ Len(retryQueue) >= 2
    /\ Len(hist.retryCalls) = Len(retryQueue)
    /\ hist.waits = 1

\* C21: an error thrown while one item is processed, in its parsing or in
\* its analysis, does not abort the run: execute does not reject, and the
\* item whose analysis threw has its element in the result collection like
\* every other item.
PerItemFailureIsolation ==
    /\ pc # "rejected"
    /\ \A k \in DOMAIN hist.threw :
          hist.threw[k] =>
             /\ k \in DOMAIN categorizedLinks
             /\ categorizedLinks[k].url = emailLinks[k].url

\* C26: after analyzeLinks and all through the retry pass the result
\* collection holds one element per parsed link, in input order, also for a
\* link whose analysis threw; at every point the index of a queue entry is
\* a position of the result collection whose element has the url of the
\* entry's link, and no two entries share an index.
QueueResultConsistency ==
    /\ MainPassOver =>
          /\ Len(categorizedLinks) = Len(emailLinks)
          /\ \A k \in DOMAIN emailLinks : categorizedLinks[k].url = emailLinks[k].url
    /\ \A p \in DOMAIN retryQueue :
          /\ retryQueue[p].index \in DOMAIN categorizedLinks
          /\ categorizedLinks[retryQueue[p].index].url = retryQueue[p].link.url
          /\ \A q \in DOMAIN retryQueue : q # p => retryQueue[q].index # retryQueue[p].index

\* the retry pass is running on a queued link that came after a link whose
\* analysis threw
QueuedAfterFailedAnalysis ==
    /\ pc = "retryLink"
    /\ Len(retryQueue) = 1
    /\ retryQueue[1].index = 2
    /\ hist.threw[1]

\* the reset time the main pass left in the scraper
ResetAfterMainPass == IF hist.waits > 0 THEN hist.waitReset ELSE rateLimitResetTime

\* two links were parsed; the analysis of the first succeeded, the tweet of
\* the second was rate limited with a reset at most 5 seconds away and its
\* analysis gave 'Unknown'; no analysis threw
TwoLinksSecondRateLimited ==
    /\ Len(emailLinks) = 2
    /\ MainPassOver
    /\ hist.fetchOutcome[1] \in {"content", "notTwitter"}
    /\ hist.fetchOutcome[2] = "rateLimited"
    /\ ~hist.threw[1] /\ ~hist.threw[2]
    /\ hist.mainResult[2].tag = "Unknown"
    /\ ResetAfterMainPass > StartTime
    /\ ResetAfterMainPass <= StartTime + 5000

\* C22: in that run, once it is done, there was exactly one wait and
\* exactly one retried entry, the second link; when its retry succeeded the
\* result collection holds the two links in input order, both complete, and
\* the url of the second link is the only member of the updated set.
EndToEndRetryScenario ==
    (TwoLinksSecondRateLimited /\ pc = "done") =>
        /\ hist.waits = 1
        /\ ~hist.skipped
        /\ Len(retryQueue) = 1
        /\ retryQueue[1].index = 2
        /\ Len(hist.retryCalls) = 1
        /\ Len(categorizedLinks) = 2
        /\ \A k \in 1..2 : categorizedLinks[k].url = emailLinks[k].url
        /\ isComplete(categorizedLinks[1])
        /\ updatedArg.given
        /\ hist.succeeded = {1} =>
              /\ isComplete(categorizedLinks[2])
              /\ updatedArg.urls = {emailLinks[2].url}
              /\ \A k \in DOMAIN updateLog : updateLog[k].urls = {emailLinks[2].url}
        /\ hist.succeeded = {} => updatedArg.urls = {} /\ updateLog = <<>>

\* the run of the scenario is done, the retry of the second link succeeded
\* and both sinks were written
ScenarioDone ==
    /\ TwoLinksSecondRateLimited
    /\ pc = "done"
    /\ hist.succeeded = {1}
    /\ Len(updateLog) = 1
    /\ updateLog[1].outcome = "ok"

\* C29: when handleRetryQueue does not skip, clearRateLimit is called
\* exactly once, after the wait and before the first retry, so the fetch of
\* the first retried entry is not stopped by the rate-limit state of the
\* main pass; and when the retry of an entry was rate limited, the scraper
\* issues no API request for the entry after it.
ClearBeforeRetry ==
    /\ hist.clears <= 1
    /\ hist.clears = hist.waits
    /\ hist.retryCalls # <<>> => hist.clears = 1
    /\ hist.skipped => hist.clears = 0
    /\ (pc = "fetchTweetContent" /\ ret = "retryLink" /\ ri = 1) =>
          ~isRateLimited(rateLimitResetTime, now)
    /\ (pc = "fetchWithRetry" /\ ret = "retryLink" /\ ri > 1) =>
          hist.lastOutcome # "rateLimited"

\* ------------------------------------------------------------------------
\* TwitterScraper under every response of the Twitter API: the main pass of
\* the use case over e-mails that hold one Twitter link each
\* ------------------------------------------------------------------------
\* longest list of tweet links of one main pass
MaxTweets == 3

\* e-mail files with one Twitter link
TweetFiles == {EmailFile(<<u>>, "ok") : u \in {"tw1", "tw2", "tco"}}

ScraperInit ==
    /\ \E files \in SeqsUpTo(TweetFiles, MaxTweets) : InitWith("parseEmailLinks", files)
    /\ orch = OrchIdle
    /\ ing = IngestIdle
    /\ wf = WorkflowIdle
    /\ repo = RepoIdle
    /\ factory = FactoryIdle

\* one iteration of fetchWithRetry, the API answering anything
fetchWithRetryAnyResponse == fetchWithRetryOn(Responses)

\* analyzeLink with an analyzer that finds no category: the answer that
\* lets a link be queued
analyzeLinkUnknown == analyzeLinkOn({"Unknown"})

ScraperNext ==
    \/ parseEmailLinks
    \/ analyzeLinks
    \/ fetchTweetContent
    \/ fetchWithRetryAnyResponse
    \/ analyzeLinkUnknown

ScraperSpec == ScraperInit /\ [][ScraperNext]_vars

\* a call that can go on does go on
ScraperFairSpec == ScraperSpec /\ WF_vars(ScraperNext)

\* 401, 403 and the other 4xx responses that are not a 429
HardErrors == {"r401", "r403", "r404"}

\* the step is an iteration of fetchWithRetry
RequestStep == pc = "fetchWithRetry"

\* the step is an iteration of fetchWithRetry followed by another one
RetryStep == pc = "fetchWithRetry" /\ pc' = "fetchWithRetry"

\* the step is the last iteration of a call of fetchWithRetry
LastRequestStep == pc = "fetchWithRetry" /\ pc' = ret

\* C23: a 401, 403 or other non-429 4xx response ends fetchWithRetry with
\* null at once and leaves rateLimitResetTime alone; analyzeLink then puts
\* the item into the result collection with the classification of the
\* analyzer and does not queue it, even when that classification is 'Unknown';
\* an iteration of fetchWithRetry is followed by another one only after a
\* 5xx response or a network error.
HardErrorsAreTerminal ==
    [][/\ (RequestStep /\ hist'.response \in HardErrors) =>
             /\ pc' = ret
             /\ tweetContent' = NULL
             /\ rateLimitResetTime' = rateLimitResetTime
       /\ (pc = "analyzeLink" /\ hist.response \in HardErrors) =>
             /\ retryQueue' = retryQueue
             /\ Len(categorizedLinks') = Len(categorizedLinks) + 1
             /\ categorizedLinks'[Len(categorizedLinks')].url = emailLinks[i].url
       /\ RetryStep => hist'.response \in {"r500", "neterr"}
      ]_vars

\* a tweet fetch that ended with a 403 after two retried requests is back
\* in analyzeLink, the scraper not rate limited
HardErrorAfterRetries ==
    /\ pc = "analyzeLink"
    /\ hist.response = "r403"
    /\ hist.requests = 3
    /\ ~isRateLimited(rateLimitResetTime, now)

\* C27: fetchWithRetry is entered only for a tweet id that is not cached
\* and with rateLimitResetTime <= now; while rate limited fetchTweetContent
\* returns without a request, null for a tweet that is not cached (a t.co
\* link may resolve to a cached tweet and return its content); a cached tweet is
\* returned from the cache without a request; an id enters the cache only
\* with the non-empty content of an ok response.
RequestGating ==
    [][/\ (pc = "fetchTweetContent" /\ pc' = "fetchWithRetry") =>
             /\ tweetId' \notin tweetCache
             /\ rateLimitResetTime <= now
       /\ (pc = "fetchTweetContent" /\ rateLimitResetTime > now) =>
             /\ pc' = ret
             /\ hist'.requests = 0
             /\ tweetContent' \in tweetCache \cup {NULL}
             /\ extractTweetId(curUrl) \notin tweetCache \cup {NULL} =>
                   tweetContent' = NULL
       /\ (pc = "fetchTweetContent" /\ extractTweetId(curUrl) \in tweetCache) =>
             /\ pc' = ret
             /\ hist'.requests = 0
             /\ tweetContent' = extractTweetId(curUrl)
       /\ hist'.requests # hist.requests =>
             \/ hist'.requests = 0
             \/ RequestStep /\ tweetId \notin tweetCache
       /\ tweetCache' # tweetCache =>
             /\ LastRequestStep
             /\ hist'.response = "ok"
             /\ tweetContent' # NULL
             /\ tweetCache' = tweetCache \cup {tweetId}
      ]_vars

\* a cached tweet was returned without a request while the scraper was
\* rate limited
CachedWhileRateLimited ==
    /\ pc = "analyzeLink"
    /\ hist.lastOutcome = "content"
    /\ hist.requests = 0
    /\ isRateLimited(rateLimitResetTime, now)
    /\ extractTweetId(curUrl) \in tweetCache

\* C28: rateLimitResetTime changes only in an iteration of fetchWithRetry
\* whose response is a 429 with an x-rate-limit-reset header, and then to
\* that header times 1000; after a 429 without the header the scraper is not
\* rate limited and analyzeLink does not queue the item.
RateLimitStateFrame ==
    [][/\ rateLimitResetTime' # rateLimitResetTime =>
             /\ RequestStep
             /\ hist'.response = "r429"
             /\ \E h \in ResetHeaders :
                   rateLimitResetTime' = ((now' \div 1000) + h) * 1000
       /\ (RequestStep /\ hist'.response # "r429") =>
             rateLimitResetTime' = rateLimitResetTime
       /\ (RequestStep /\ hist'.response = "r429bare") =>
             ~isRateLimited(rateLimitResetTime', now')
       /\ (pc = "analyzeLink" /\ hist.response = "r429bare") =>
             /\ ~isRateLimited(rateLimitResetTime, now)
             /\ retryQueue' = retryQueue
      ]_vars

\* a tweet fetch ended with a 429 without the header, after a retried
\* request, and is back in analyzeLink
BareRateLimitReturned ==
    /\ pc = "analyzeLink"
    /\ hist.response = "r429bare"
    /\ hist.requests = 2
    /\ rateLimitResetTime = 0

\* C30: a call of fetchWithRetry makes at most maxRetries + 1 = 3 requests
\* and ends; an iteration is followed by another one only after a 5xx
\* response or a network error on an attempt below maxRetries; a network
\* error on the last attempt and a 429 on any attempt end the call at once,
\* fetchTweetContent returning null.
BoundedLowLevelRetry ==
    /\ [](hist.requests <= 3 /\ attempt <= 2)
    /\ [][/\ RetryStep =>
                /\ hist'.response \in {"r500", "neterr"}
                /\ attempt < maxRetries
                /\ attempt' = attempt + 1
                /\ hist'.requests = hist.requests + 1
          /\ (RequestStep /\ hist'.response \in {"r429", "r429bare"}) =>
                /\ pc' = ret
                /\ tweetContent' = NULL
                /\ hist'.lastOutcome = "rateLimited"
          /\ (RequestStep /\ hist'.response = "neterr" /\ attempt = maxRetries) =>
                /\ pc' = ret
                /\ tweetContent' = NULL
                /\ hist'.lastOutcome = "failed"
         ]_vars
    /\ (pc = "fetchWithRetry") ~> (pc # "fetchWithRetry")

\* a call of fetchWithRetry ended on a network error at its third request
\* and fetchTweetContent returned null
RethrownOnLastAttempt ==
    /\ pc = "analyzeLink"
    /\ hist.response = "neterr"
    /\ hist.requests = 3
    /\ tweetContent = NULL

\* ------------------------------------------------------------------------
\* LinkExtractionOrchestrator and RetryHandlerService: the retry loop
\* (modelled from the design: their source files are not in the tree)
\* ------------------------------------------------------------------------
\* what one retry of a queued entry reports
RetryOutcomes == {"ok", "rateLimited", "failed"}
\* is the first observed wait window within the ceiling?
CeilingOutcomes == {"within", "exceeds"}

useCaseVars == <<pc, now, emailFiles, emailLinks, i, categorizedLinks, retryQueue,
                 tweetContent, ret, curUrl, tweetId, attempt,
                 rateLimitResetTime, tweetCache, waitSeconds, endWait, ri,
                 updatedUrls, updatedArg, csvLog, notionLog, updateLog, hist>>

\* the elements of the set S of numbers, in increasing order
RECURSIVE Sorted(_)
Sorted(S) ==
    IF S = {} THEN <<>>
    ELSE LET m == CHOOSE x \in S : \A y \in S : x <= y
         IN  <<m>> \o Sorted(S \ {m})

\* a QueuedLink as the main pass creates it
QueuedLink(index) == [link |-> EmailLink("tw1"), index |-> index, attempts |-> 0]

\* the result collection holds MaxQueued items; those of S are queued
OrchInit ==
    /\ InitWith("idle", <<>>)
    /\ ing = IngestIdle
    /\ wf = WorkflowIdle
    /\ repo = RepoIdle
    /\ factory = FactoryIdle
    /\ \E S \in SUBSET (1..MaxQueued) :
         orch = [pc        |-> "loop",
                 queue     |-> [k \in 1..Cardinality(S) |-> QueuedLink(Sorted(S)[k])],
                 remaining |-> <<>>,
                 links     |-> [k \in 1..MaxQueued |->
                                  withCategorization(EmailLink("tw1"), "Unknown", "")],
                 pos       |-> 1,
                 cycle     |-> 0,       \* cycles started
                 waits     |-> 0,       \* waits for the reset
                 resolved  |-> 0,       \* entries resolved so far
                 exhausted |-> 0,       \* entries exhausted so far
                 before    |-> 0,       \* resolved + exhausted before the cycle
                 skipped   |-> FALSE,   \* ceiling skip taken
                 updated   |-> {},      \* indexes written back
                 status    |-> [k \in 1..MaxQueued |->
                                  IF k \in S THEN "Queued" ELSE "Analyzed"],
                 attempts  |-> [k \in 1..MaxQueued |-> 0],
                 retries   |-> [k \in 1..MaxQueued |-> 0],
                 limited   |-> [k \in 1..MaxQueued |-> 0],  \* rate-limited retries
                 queued    |-> Cardinality(S),  \* entries queued at first
                 onlyRateLimited |-> TRUE]      \* no retry reported anything else

\* progress of the run: entries resolved or exhausted
Progress(o) == o.resolved + o.exhausted

\* the loop condition without the test of the queue
ContinuesOnProgress(o) == o.cycle > 0 => Progress(o) > o.before

\* the loop condition without the test of progress
ContinuesWhileQueued(o) == Len(o.queue) > 0

\* the loop of the orchestrator goes into another cycle
ContinuesLoop(o) ==
    /\ Len(o.queue) > 0
    /\ (o.cycle > 0 => Progress(o) > o.before)

\* the loop head of the orchestrator
orchLoop ==
    /\ orch.pc = "loop"
    /\ orch' = [orch EXCEPT !.pc = IF ContinuesLoop(orch) THEN "handle" ELSE "done"]
    /\ UNCHANGED useCaseVars
    /\ UNCHANGED <<ing, wf, repo, factory>>

\* handleRetryQueue of the retry handler: the ceiling is looked at before the
\* first wait only; then one wait for all queued entries
orchHandleRetryQueue ==
    /\ orch.pc = "handle"
    /\ \E c \in CeilingOutcomes :
         /\ (orch.cycle > 0 => c = "within")
         /\ IF c = "exceeds"
            THEN orch' = [orch EXCEPT !.pc = "done", !.skipped = TRUE]
            ELSE orch' = [orch EXCEPT !.pc = "retry",
                                      !.cycle = @ + 1,
                                      !.waits = @ + 1,
                                      !.before = Progress(orch),
                                      !.pos = 1,
                                      !.remaining = <<>>]
    /\ UNCHANGED useCaseVars
    /\ UNCHANGED <<ing, wf, repo, factory>>

\* the budget test passing one attempt too many
BudgetUsedLate(attempts) == attempts > MAX_RETRY_ATTEMPTS

\* has an entry with that many attempts used its budget?
BudgetUsed(attempts) == attempts >= MAX_RETRY_ATTEMPTS

\* the retry of one queued entry
orchRetry ==
    /\ orch.pc = "retry"
    /\ orch.pos <= Len(orch.queue)
    /\ \E r \in RetryOutcomes :
         LET q == orch.queue[orch.pos]
             k == q.index
             o == [orch EXCEPT !.pos = @ + 1,
                               !.retries[k] = @ + 1,
                               !.limited[k] = IF r = "rateLimited" THEN @ + 1 ELSE @,
                               !.onlyRateLimited = @ /\ r = "rateLimited"]
         IN  CASE r = "ok" ->
                    orch' = [o EXCEPT !.links[k] = withCategorization(q.link, "Tech", "about Tech"),
                                      !.updated = @ \cup {k},
                                      !.resolved = @ + 1,
                                      !.status[k] = "Analyzed"]
               [] r = "rateLimited" /\ BudgetUsed(q.attempts + 1) ->
                    orch' = [o EXCEPT !.attempts[k] = q.attempts + 1,
                                      !.exhausted = @ + 1,
                                      !.status[k] = "Exhausted"]
               [] r = "rateLimited" /\ ~BudgetUsed(q.attempts + 1) ->
                    orch' = [o EXCEPT !.attempts[k] = q.attempts + 1,
                                      !.remaining = Append(@, [q EXCEPT !.attempts = @ + 1])]
               [] OTHER ->
                    orch' = [o EXCEPT !.status[k] = "Failed"]
    /\ UNCHANGED useCaseVars
    /\ UNCHANGED <<ing, wf, repo, factory>>

\* the end of a cycle: the entries still rate limited form the next queue
orchEndCycle ==
    /\ orch.pc = "retry"
    /\ orch.pos > Len(orch.queue)
    /\ orch' = [orch EXCEPT !.pc = "loop", !.queue = orch.remaining, !.remaining = <<>>]
    /\ UNCHANGED useCaseVars
    /\ UNCHANGED <<ing, wf, repo, factory>>

OrchNext ==
    \/ orchLoop
    \/ orchHandleRetryQueue
    \/ orchRetry
    \/ orchEndCycle

OrchSpec == OrchInit /\ [][OrchNext]_vars

\* every step of the retry loop that can be taken is eventually taken
OrchFairSpec == OrchSpec /\ WF_vars(OrchNext)

\* ------------------------------------------------------------------------
\* Properties of the retry loop
\* ------------------------------------------------------------------------
\* the entries waiting for a retry: the rest of this cycle's queue and the
\* entries re-queued for the next cycle
Waiting ==
    {orch.queue[p] : p \in {x \in DOMAIN orch.queue : orch.pc # "retry" \/ x >= orch.pos}}
      \cup {orch.remaining[p] : p \in DOMAIN orch.remaining}

OrchDone == orch.pc = "done"

\* a cycle starts only with a queue that is not empty and, after the first
\* one, only when the cycle before it made progress
CycleNeedsProgress ==
    orch.pc = "handle" =>
      /\ Len(orch.queue) > 0
      /\ orch.cycle > 0 => Progress(orch) > orch.before

\* the loop stops with an empty queue, or after a cycle without progress, or
\* at the ceiling skip; no entry of the queue has used its budget
StopsForAReason ==
    OrchDone =>
      /\ orch.skipped \/ Len(orch.queue) = 0 \/ Progress(orch) = orch.before
      /\ \A p \in DOMAIN orch.queue : orch.queue[p].attempts < MAX_RETRY_ATTEMPTS

\* C4: the retry loop always terminates; it goes into a cycle only while the
\* queue is not empty and the cycle before made progress (an entry resolved
\* or exhausted).
RetryLoopTerminates ==
    /\ <>OrchDone
    /\ []CycleNeedsProgress
    /\ []StopsForAReason

\* the loop has stopped after two cycles, the second without progress
StoppedWithoutProgress ==
    /\ OrchDone
    /\ orch.cycle = 2
    /\ Len(orch.queue) > 0
    /\ Progress(orch) = orch.before

\* 3 entries were queued and every retry made reported a rate limit
ThreeQueuedAllRateLimited ==
    /\ OrchDone
    /\ ~orch.skipped
    /\ orch.queued = 3
    /\ orch.onlyRateLimited

MaxFiles == 2

\* contents and types of the raw files
Contents == {"c1", "c2"}
FileTypes == {"eml", "txt"}

\* FileIngestionConfig.path: missing, empty, a directory, archives
Paths == {NULL, "", "/dir", "a.ZIP", "b.tar.gz"}

\* ApiIngestionConfig.credentials: missing or given
Credentials == {NULL, "creds"}

\* what a reader or an API does when asked for the raw collection
FetchOutcomes == {"ok", "throw"}

\* how far the clock moves between two readings of new Date()
ClockSteps == {0, 1}

\* the steps of the template method, in the order ingest calls them
IngestSteps == <<"validateConfig", "fetchRaw", "normalize", "enrich">>

RawFile(content, fileType) == [content |-> content, fileType |-> fileType]

BaseContent(url, sourceAdapter, tags, summary, rawContent, createdAt, updatedAt, contentType) ==
    [url |-> url, sourceAdapter |-> sourceAdapter, tags |-> tags,
     summary |-> summary, rawContent |-> rawContent, createdAt |-> createdAt,
     updatedAt |-> updatedAt, contentType |-> contentType]

\* the property f of the object r; undefined when r has no such property
Field(r, f) == IF f \in DOMAIN r THEN r[f] ELSE "undefined"

\* the source type a data source of the kind was constructed with
sourceType(kind) == IF kind = "file" THEN "Directory" ELSE "Gmail"

\* only a missing value taken as missing
IsUndefined(v) == v = NULL

\* !config.path and !config.credentials
Falsy(v) == v \in {NULL, ""}

\* the error validateConfig throws, as words; <<>> when it throws none
validateConfig(kind, config) ==
    IF kind = "file"
    THEN IF Falsy(config.path)
         THEN <<sourceType(kind), "path", "is", "required", "for", "file",
                "data", "sources">>
         ELSE <<>>
    ELSE IF Falsy(config.credentials)
         THEN <<sourceType(kind), "credentials", "are", "required", "for",
                "API", "data", "sources">>
         ELSE <<>>

\* path.toLowerCase() ends with one of the suffixes
EndsWith(path, suffixes) ==
    \/ path = "a.ZIP" /\ ".zip" \in suffixes
    \/ path = "b.tar.gz" /\ ".tar.gz" \in suffixes

\* the reader fetchRaw of DirectorySourceReader hands the path to
ReaderFor(path) ==
    IF EndsWith(path, {".zip"}) THEN "zipReader"
    ELSE IF EndsWith(path, {".tar", ".tar.gz", ".tgz"}) THEN "tarReader"
    ELSE "filesystemReader"

\* the files mapped in reverse order
normalizeReversed(files, t) ==
    [k \in DOMAIN files |->
        BaseContent(Field(files[Len(files) + 1 - k], "content"), "Directory", <<>>, "",
                    Field(files[Len(files) + 1 - k], "content"), t, t,
                    Field(files[Len(files) + 1 - k], "fileType"))]

\* normalize of DirectorySourceReader, called when new Date() is t
normalize(files, t) ==
    [k \in DOMAIN files |->
        BaseContent(Field(files[k], "content"), "Directory", <<>>, "",
                    Field(files[k], "content"), t, t, Field(files[k], "fileType"))]

\* the default enrich hook
enrich(items) == items

\* the raw collections a backend can hold
RawCollections == SeqsUpTo({RawFile(c, f) : c \in Contents, f \in FileTypes}, MaxFiles)

\* ingest(config) is called on a data source of either kind
IngestInit ==
    /\ InitWith("idle", <<>>)
    /\ orch = OrchIdle
    /\ wf = WorkflowIdle
    /\ repo = RepoIdle
    /\ factory = FactoryIdle
    /\ \E kind \in {"file", "api"}, path \in Paths, credentials \in Credentials,
          files \in RawCollections, outcome \in FetchOutcomes :
         /\ (kind = "file" => credentials = NULL)
         /\ (kind = "api" => path = NULL)
         /\ ing = [pc         |-> "validateConfig",
                   kind       |-> kind,
                   config     |-> [path |-> path, credentials |-> credentials],
                   backend    |-> files,      \* what the backend holds
                   fetches    |-> outcome,    \* what the backend does when read
                   clock      |-> StartTime,
                   calls      |-> <<>>,       \* steps called so far
                   reader     |-> "none",     \* reader fetchRaw went to
                   reads      |-> 0,          \* reads of the backend
                   rawData    |-> <<>>,
                   normalized |-> <<>>,
                   result     |-> <<>>,       \* what ingest resolves with
                   error      |-> <<>>,       \* what ingest rejects with
                   again      |-> [done |-> FALSE, items |-> <<>>]]

\* ingest: await this.validateConfig(config)
ingestValidateConfig ==
    /\ ing.pc = "validateConfig"
    /\ LET err == validateConfig(ing.kind, ing.config)
       IN  ing' = [ing EXCEPT !.calls = Append(@, "validateConfig"),
                              !.error = err,
                              !.pc = IF err # <<>> THEN "rejected" ELSE "fetchRaw"]
    /\ UNCHANGED useCaseVars
    /\ UNCHANGED <<orch, wf, repo, factory>>

\* ingest: const rawData = await this.fetchRaw(config)
ingestFetchRaw ==
    /\ ing.pc = "fetchRaw"
    /\ ing' = [ing EXCEPT !.calls = Append(@, "fetchRaw"),
                          !.reads = @ + 1,
                          !.reader = IF ing.kind = "file"
                                     THEN ReaderFor(ing.config.path) ELSE "api",
                          !.rawData = IF ing.fetches = "ok" THEN ing.backend ELSE <<>>,
                          !.error = IF ing.fetches = "ok" THEN <<>>
                                    ELSE <<"read", "failed">>,
                          !.pc = IF ing.fetches = "ok" THEN "normalize"
                                 ELSE "rejected"]
    /\ UNCHANGED useCaseVars
    /\ UNCHANGED <<orch, wf, repo, factory>>

\* ingest: const normalized = await this.normalize(rawData); normalize of an
\* API source is abstract: it returns some items
ingestNormalize ==
    /\ ing.pc = "normalize"
    /\ \E d \in ClockSteps, n \in 0..Len(ing.rawData) :
         LET t == ing.clock + d
         IN  /\ (ing.kind = "file" => n = 0)
             /\ ing' = [ing EXCEPT
                   !.calls = Append(@, "normalize"),
                   !.clock = t,
                   !.normalized =
                       IF ing.kind = "file" THEN normalize(ing.rawData, t)
                       ELSE [k \in 1..n |->
                               BaseContent("item", sourceType(ing.kind), <<>>, "",
                                           "item", t, t, "item")],
                   !.pc = "enrich"]
    /\ UNCHANGED useCaseVars
    /\ UNCHANGED <<orch, wf, repo, factory>>

\* ingest: return await this.enrich(normalized)
ingestEnrich ==
    /\ ing.pc = "enrich"
    /\ ing' = [ing EXCEPT !.calls = Append(@, "enrich"),
                          !.result = enrich(ing.normalized),
                          !.pc = "done"]
    /\ UNCHANGED useCaseVars
    /\ UNCHANGED <<orch, wf, repo, factory>>

\* normalize of DirectorySourceReader run again, on the items it returned
normalizeAgain ==
    /\ ing.pc = "done"
    /\ ing.kind = "file"
    /\ ~ing.again.done
    /\ \E d \in ClockSteps :
         ing' = [ing EXCEPT !.clock = @ + d,
                            !.again = [done |-> TRUE,
                                       items |-> normalize(ing.normalized, ing.clock + d)]]
    /\ UNCHANGED useCaseVars
    /\ UNCHANGED <<orch, wf, repo, factory>>

IngestNext ==
    \/ ingestValidateConfig
    \/ ingestFetchRaw
    \/ ingestNormalize
    \/ ingestEnrich
    \/ normalizeAgain

IngestSpec == IngestInit /\ [][IngestNext]_vars

\* ------------------------------------------------------------------------
\* Properties of ingest(config)
\* ------------------------------------------------------------------------
\* does the message hold the words, one after the other?
Contains(message, words) ==
    \E k \in 1..(Len(message) - Len(words) + 1) :
        SubSeq(message, k, k + Len(words) - 1) = words

\* the configuration lacks the field its kind of source requires
RequiredFieldMissing ==
    \/ ing.kind = "file" /\ ing.config.path \in {NULL, ""}
    \/ ing.kind = "api" /\ ing.config.credentials = NULL

\* C15: ingest calls validateConfig, fetchRaw, normalize and enrich in that
\* order, each at most once; with a file source whose path is empty or
\* missing, or an API source without credentials, ingest rejects with an
\* error naming the field, and fetchRaw, normalize and enrich are not
\* called: the backend is never read.
IngestOrderFailFast ==
    /\ ing.calls = SubSeq(IngestSteps, 1, Len(ing.calls))
    /\ ing.pc = "done" => ing.calls = IngestSteps
    /\ ing.calls = <<>> => ing.reads = 0
    /\ (RequiredFieldMissing /\ ing.calls # <<>>) =>
          /\ ing.pc = "rejected"
          /\ ing.calls = <<"validateConfig">>
          /\ ing.reads = 0
          /\ ing.reader = "none"
          /\ ing.result = <<>>
          /\ ing.kind = "file" => Contains(ing.error, <<"path", "is", "required">>)
          /\ ing.kind = "api" => Contains(ing.error, <<"credentials", "are", "required">>)

\* ingest has rejected the empty path of a file source
RejectedForMissingPath ==
    /\ ing.pc = "rejected"
    /\ ing.kind = "file"
    /\ ing.config.path = ""
    /\ Len(ing.backend) > 0
    /\ ing.error # <<>>

\* C16: ingest of the directory reader returns one item for every raw file
\* that fetchRaw returned, in the same order: item k has the content of raw
\* file k as its rawContent and url, source adapter 'Directory', no tags and
\* an empty summary.
NormalizePreservesOrderAndCount ==
    (ing.pc = "done" /\ ing.kind = "file") =>
        /\ ing.rawData = ing.backend
        /\ Len(ing.result) = Len(ing.backend)
        /\ \A k \in DOMAIN ing.result :
              /\ ing.result[k].rawContent = ing.backend[k].content
              /\ ing.result[k].url = ing.backend[k].content
              /\ ing.result[k].sourceAdapter = "Directory"
              /\ ing.result[k].tags = <<>>
              /\ ing.result[k].summary = ""

\* ingest has returned the items of two raw files of different content
TwoFilesNormalized ==
    /\ ing.pc = "done"
    /\ ing.kind = "file"
    /\ Len(ing.result) >= 2
    /\ ing.result[1].rawContent # ing.result[2].rawContent

\* C17: normalize applied to the items normalize returned gives the same
\* items again.
NormalizeIdempotent ==
    ing.again.done => ing.again.items = ing.normalized

\* ------------------------------------------------------------------------
\* Workflow pipeline: WorkflowExecutor over a producer, the pipeline of
\* GmailParserStage and a collecting consumer (the executor, the pipeline
\* and the consumer are modelled from the design: their source files are not
\* in the tree)
\* ------------------------------------------------------------------------
\* longest sequence the source produces
MaxMessages == 2

\* the links a message can hold
Links == {"l1", "l2"}

\* a message, seen as the links extractLinks finds in its rawContent
GmailMessage(links) == [rawContent |-> links]

Messages == {GmailMessage(l) : l \in SeqsUpTo(Links, 2)}

\* a stage that yields every link of the message
processEveryLink(gmailMessage) ==
    [k \in DOMAIN extractLinks(gmailMessage.rawContent) |->
        EmailLink(extractLinks(gmailMessage.rawContent)[k])]

\* GmailParserStage.process: the items it yields for a message
process(gmailMessage) ==
    LET links == extractLinks(gmailMessage.rawContent)
    IN  IF Len(links) > 0 THEN <<EmailLink(links[1])>> ELSE <<>>

\* a consumer that puts the item in front
consumeInFront(results, item) == <<item>> \o results

\* the collection of the consumer after consume(item)
consume(results, item) == Append(results, item)

\* the collection of the consumer after it consumed the items in order
RECURSIVE consumeAll(_, _)
consumeAll(results, items) ==
    IF items = <<>> THEN results
    ELSE consumeAll(consume(results, Head(items)), Tail(items))

\* onComplete left out of every aborted run
NeverCompletesAborted(itemsProduced) == FALSE

\* does an aborted run still fire onComplete? Only a source that fails
\* before producing any item skips it
CompletesAborted(itemsProduced) == itemsProduced > 0

\* execute(hooks) is called on a new executor
WorkflowInit ==
    /\ InitWith("idle", <<>>)
    /\ orch = OrchIdle
    /\ ing = IngestIdle
    /\ repo = RepoIdle
    /\ factory = FactoryIdle
    /\ \E source \in SeqsUpTo(Messages, MaxMessages) :
         \E failAt \in 0..(Len(source) + 1), throws \in SUBSET (1..Len(source)) :
            wf = [pc       |-> "start",
                  source   |-> source,  \* what the producer yields
                  failAt   |-> failAt,  \* item at which the source fails (0: never)
                  throws   |-> throws,  \* items at which the stage throws
                  idx      |-> 1,       \* next item of the source
                  stats    |-> [itemsProduced |-> 0, itemsConsumed |-> 0, errors |-> 0],
                  results  |-> <<>>,    \* collection of the consumer
                  hooks    |-> <<>>,    \* onStart, onError, onComplete as fired
                  processed |-> 0]      \* onItemProcessed calls

\* execute: onStart
workflowStart ==
    /\ wf.pc = "start"
    /\ wf' = [wf EXCEPT !.hooks = Append(@, "onStart"), !.pc = "produce"]
    /\ UNCHANGED useCaseVars
    /\ UNCHANGED <<orch, ing, repo, factory>>

\* execute: the next item is asked of the source, which yields it, is
\* exhausted, or fails
workflowProduce ==
    /\ wf.pc = "produce"
    /\ IF wf.failAt = wf.idx
       THEN wf' = [wf EXCEPT !.hooks = Append(@, "onError"),
                             !.pc = IF CompletesAborted(wf.stats.itemsProduced)
                                    THEN "complete" ELSE "aborted"]
       ELSE IF wf.idx > Len(wf.source)
       THEN wf' = [wf EXCEPT !.pc = "complete"]
       ELSE wf' = [wf EXCEPT !.stats.itemsProduced = @ + 1, !.pc = "process"]
    /\ UNCHANGED useCaseVars
    /\ UNCHANGED <<orch, ing, repo, factory>>

\* execute: the item goes through the pipeline and every output to the
\* consumer; an error of the stage is caught, counted and reported
workflowProcess ==
    /\ wf.pc = "process"
    /\ IF wf.idx \in wf.throws
       THEN wf' = [wf EXCEPT !.stats.errors = @ + 1,
                             !.hooks = Append(@, "onError"),
                             !.idx = @ + 1,
                             !.pc = "produce"]
       ELSE LET outputs == process(wf.source[wf.idx])
            IN  wf' = [wf EXCEPT !.results = consumeAll(@, outputs),
                                 !.stats.itemsConsumed = @ + Len(outputs),
                                 !.processed = @ + 1,
                                 !.idx = @ + 1,
                                 !.pc = "produce"]
    /\ UNCHANGED useCaseVars
    /\ UNCHANGED <<orch, ing, repo, factory>>

\* execute: onComplete(stats)
workflowComplete ==
    /\ wf.pc = "complete"
    /\ wf' = [wf EXCEPT !.hooks = Append(@, "onComplete"),
                        !.pc = IF wf.failAt = wf.idx THEN "aborted" ELSE "done"]
    /\ UNCHANGED useCaseVars
    /\ UNCHANGED <<orch, ing, repo, factory>>

WorkflowNext ==
    \/ workflowStart
    \/ workflowProduce
    \/ workflowProcess
    \/ workflowComplete

WorkflowSpec == WorkflowInit /\ [][WorkflowNext]_vars

\* the executor goes on while it has a step to take
WorkflowFairSpec == WorkflowSpec /\ WF_vars(WorkflowNext)

\* ------------------------------------------------------------------------
\* Properties of the workflow pipeline
\* ------------------------------------------------------------------------
\* the stage filters item k: the message holds no link
Filtered(k) == Len(wf.source[k].rawContent) = 0

\* the links the consumer is to hold after items 1..n: the first link of
\* every item that is neither filtered nor failed, in source order
RECURSIVE ExpectedLinks(_)
ExpectedLinks(n) ==
    IF n = 0 THEN <<>>
    ELSE IF n \in wf.throws \/ Filtered(n) THEN ExpectedLinks(n - 1)
    ELSE Append(ExpectedLinks(n - 1), EmailLink(wf.source[n].rawContent[1]))

\* the iteration of the source has failed
SourceFailed == wf.failAt = wf.idx /\ wf.pc \in {"complete", "aborted"}

\* how many times the hook has fired
Fired(hook) == Cardinality({k \in DOMAIN wf.hooks : wf.hooks[k] = hook})

\* C18: when the source ends after N items, no item is filtered and no
\* stage fails, the consumer holds exactly N items, one per source item and
\* in source order, and itemsProduced = itemsConsumed = N.
NoLossWithoutFiltering ==
    (/\ wf.pc = "done"
     /\ wf.throws = {}
     /\ \A k \in DOMAIN wf.source : ~Filtered(k)) =>
        /\ Len(wf.results) = Len(wf.source)
        /\ \A k \in DOMAIN wf.source :
              wf.results[k].url = wf.source[k].rawContent[1]
        /\ wf.stats.itemsProduced = Len(wf.source)
        /\ wf.stats.itemsConsumed = Len(wf.source)

\* a run over two messages with different first links is complete, nothing
\* filtered and nothing failed
TwoItemsConsumed ==
    /\ wf.pc = "done"
    /\ wf.throws = {}
    /\ Len(wf.source) >= 2
    /\ \A k \in DOMAIN wf.source : ~Filtered(k)
    /\ wf.source[1].rawContent[1] # wf.source[2].rawContent[1]

\* C19: a message without link gives no output and no error: the consumer
\* never holds an item for it, the items after it are still processed, and
\* at completion itemsConsumed < itemsProduced; a message with links gives
\* exactly one item, its first link.
FilteringIsNoError ==
    /\ wf.results = ExpectedLinks(wf.idx - 1)
    /\ wf.stats.itemsConsumed = Len(wf.results)
    /\ wf.stats.errors = Cardinality({k \in wf.throws : k < wf.idx})
    /\ Fired("onError") = wf.stats.errors + (IF SourceFailed THEN 1 ELSE 0)
    /\ wf.pc = "done" =>
          /\ wf.stats.itemsProduced = Len(wf.source)
          /\ wf.processed = Len(wf.source) - Cardinality(wf.throws)
          /\ (\E k \in DOMAIN wf.source : Filtered(k)) =>
                wf.stats.itemsConsumed < wf.stats.itemsProduced

\* the first message was filtered and the one after it reached the consumer
FilteredThenConsumed ==
    /\ wf.pc = "done"
    /\ Len(wf.source) >= 2
    /\ Filtered(1)
    /\ Len(wf.source[2].rawContent) = 2
    /\ wf.results = <<EmailLink(wf.source[2].rawContent[1])>>
    /\ wf.stats.errors = 0

\* the run is over
WorkflowOver == wf.pc \in {"done", "aborted"}

\* onComplete as the hooks fired so far allow it
OnCompleteInOrder ==
    /\ Fired("onComplete") <= 1
    /\ Fired("onStart") <= 1
    /\ Fired("onComplete") = 1 =>
          /\ wf.hooks[1] = "onStart"
          /\ wf.hooks[Len(wf.hooks)] = "onComplete"
          /\ WorkflowOver
    /\ wf.pc = "done" => Fired("onComplete") = 1
    /\ wf.pc = "aborted" =>
          /\ Fired("onError") >= 1
          /\ wf.stats.itemsProduced = 0 =>
                Fired("onComplete") = 0 /\ wf.hooks = <<"onStart", "onError">>
          /\ wf.stats.itemsProduced > 0 => Fired("onComplete") = 1

\* C20: every run of the executor ends, and onComplete has then fired
\* exactly once, after onStart and after the last item, also when items
\* failed; only in a run whose source fails before producing any item does
\* onError fire and onComplete not fire.
OnCompleteExactlyOnce ==
    /\ <>WorkflowOver
    /\ []OnCompleteInOrder

\* a run in which an item failed has fired onComplete
CompletedWithFailedItem ==
    /\ wf.pc = "done"
    /\ wf.stats.errors > 0
    /\ Fired("onComplete") = 1

\* ------------------------------------------------------------------------
\* FileTimestampRepository
\* ------------------------------------------------------------------------
\* latest instant (milliseconds) a Date of the model holds
MaxTimestamp == 3

\* a valid Date
Date(ms) == [valid |-> TRUE, ms |-> ms]

\* the Date made of a text that is no timestamp
InvalidDate == [valid |-> FALSE, ms |-> 0]

Dates == {Date(ms) : ms \in 1..MaxTimestamp}

\* the defaultTimestamp field: undefined, or a Date
NoDefault == [given |-> FALSE, date |-> InvalidDate]

Defaults == {NoDefault} \cup {[given |-> TRUE, date |-> d] : d \in Dates}

\* the text of a file: nothing, white space only, an ISO timestamp (followed
\* by a line end when padded) or something else
Text(kind, ms, padded) == [kind |-> kind, ms |-> ms, padded |-> padded]

EmptyText == Text("empty", 0, FALSE)

Texts ==
    {EmptyText, Text("blank", 0, TRUE), Text("other", 0, FALSE)}
        \cup {Text("iso", ms, padded) : ms \in 1..MaxTimestamp, padded \in BOOLEAN}

\* the file at timestampFilePath
NoFile == [exists |-> FALSE, content |-> EmptyText]

Files == {NoFile} \cup {[exists |-> TRUE, content |-> t] : t \in Texts}

\* outcomes of readFile and of writeFile
IoOutcomes == {"ok", "throw"}

\* content.trim()
trim(text) ==
    IF text.kind = "blank" THEN EmptyText ELSE [text EXCEPT !.padded = FALSE]

\* timestamp.toISOString()
toISOString(date) == Text("iso", date.ms, FALSE)

\* new Date(timestamp)
NewDate(text) == IF text.kind = "iso" THEN Date(text.ms) ELSE InvalidDate

\* results of getLastExecutionTime: a Date returned, or an error thrown
Returned(date) == [threw |-> FALSE, value |-> date, message |-> <<>>]

Thrown(message) == [threw |-> TRUE, value |-> InvalidDate, message |-> message]

NotFoundError == <<"Timestamp", "file", "not", "found:">>

EmptyError == <<"Timestamp", "file", "is", "empty:">>

\* the error of a readFile that fails
ReadError == <<"EACCES:", "permission", "denied">>

FailedToReadError(message) == <<"Failed", "to", "read", "timestamp", "file:">> \o message

\* the try block of getLastExecutionTime
TryGetLastExecutionTime(file, default, read) ==
    IF ~file.exists
    THEN IF ~default.given THEN Thrown(NotFoundError) ELSE Returned(default.date)
    ELSE IF read = "throw" THEN Thrown(ReadError)
    ELSE LET timestamp == trim(file.content)
         IN  IF timestamp = EmptyText
             THEN IF ~default.given THEN Thrown(EmptyError)
                  ELSE Returned(default.date)
             ELSE Returned(NewDate(timestamp))

\* the default preferred to the content of the file
DefaultFirst(file, default, read) ==
    IF default.given THEN Returned(default.date)
    ELSE TryGetLastExecutionTime(file, default, read)

\* getLastExecutionTime: the try block, then the catch block on what it threw
getLastExecutionTime(file, default, read) ==
    LET tried == TryGetLastExecutionTime(file, default, read)
    IN  IF ~tried.threw THEN tried
        ELSE IF Contains(tried.message, <<"Timestamp", "file">>) THEN tried
        ELSE IF ~default.given THEN Thrown(FailedToReadError(tried.message))
        ELSE Returned(default.date)

RepoInit ==
    /\ InitWith("idle", <<>>)
    /\ orch = OrchIdle
    /\ ing = IngestIdle
    /\ wf = WorkflowIdle
    /\ factory = FactoryIdle
    /\ \E f \in Files, d \in Defaults :
          repo = [pc |-> "ready", file |-> f, default |-> d, read |-> "ok",
                  saved |-> NoDefault, result |-> Returned(InvalidDate)]

\* a call of getLastExecutionTime
repoGetLastExecutionTime ==
    /\ repo.pc \in {"ready", "got", "saved"}
    /\ \E read \in IoOutcomes :
          repo' = [repo EXCEPT !.pc = "got",
                               !.read = read,
                               !.result = getLastExecutionTime(repo.file, repo.default, read)]
    /\ UNCHANGED useCaseVars
    /\ UNCHANGED <<orch, ing, wf, factory>>

\* a call of saveLastExecutionTime(timestamp)
repoSaveLastExecutionTime ==
    /\ repo.pc \in {"ready", "got", "saved"}
    /\ \E timestamp \in Dates, write \in IoOutcomes :
          repo' = IF write = "ok"
                  THEN [repo EXCEPT !.pc = "saved",
                                    !.file = [exists |-> TRUE,
                                              content |-> toISOString(timestamp)],
                                    !.saved = [given |-> TRUE, date |-> timestamp]]
                  ELSE [repo EXCEPT !.pc = "saved"]
    /\ UNCHANGED useCaseVars
    /\ UNCHANGED <<orch, ing, wf, factory>>

RepoNext ==
    \/ repoGetLastExecutionTime
    \/ repoSaveLastExecutionTime

RepoSpec == RepoInit /\ [][RepoNext]_vars

\* ------------------------------------------------------------------------
\* Properties of FileTimestampRepository
\* ------------------------------------------------------------------------
\* getLastExecutionTime has just returned or thrown
Got == repo.pc = "got"

\* the file exists and holds nothing, or nothing but white space
FileEmpty == repo.file.exists /\ trim(repo.file.content) = EmptyText

\* the file holds a timestamp as saveLastExecutionTime writes it
HoldsTimestamp == repo.file.exists /\ repo.file.content.kind = "iso"

\* the contract of getLastExecutionTime for a result r, as far as it does
\* not depend on the file being read
ContractWithoutFile(r) ==
    /\ (~repo.file.exists /\ ~repo.default.given) =>
          r.threw /\ Contains(r.message, <<"Timestamp", "file", "not", "found:">>)
    /\ (~repo.file.exists /\ repo.default.given) =>
          r = Returned(repo.default.date)

\* the contract of getLastExecutionTime for a result r when the file exists
ContractWithFile(r) ==
    /\ (FileEmpty /\ ~repo.default.given) =>
          r.threw /\ Contains(r.message, <<"Timestamp", "file", "is", "empty:">>)
    /\ (FileEmpty /\ repo.default.given) =>
          r = Returned(repo.default.date)
    /\ HoldsTimestamp => r = Returned(Date(repo.file.content.ms))
    /\ ~r.threw =>
          \/ repo.default.given /\ r.value = repo.default.date
          \/ repo.file.exists /\ r.value = NewDate(trim(repo.file.content))

\* C24 as stated: whenever getLastExecutionTime has returned, a missing
\* file gave 'Timestamp file not found' or the default, an empty file gave
\* 'Timestamp file is empty' or the default, a file with a saved timestamp
\* gave that timestamp, and a returned value is the default or the
\* timestamp of the file.
TimestampContract ==
    Got => ContractWithoutFile(repo.result) /\ ContractWithFile(repo.result)

\* C24: the same, the clauses on an existing file holding when readFile
\* succeeded; when readFile failed the result is the default if one was
\* given, and else an error 'Failed to read timestamp file'.
TimestampContractWhenRead ==
    Got =>
        /\ ContractWithoutFile(repo.result)
        /\ (repo.read = "ok" \/ ~repo.file.exists) => ContractWithFile(repo.result)
        /\ (repo.read = "throw" /\ repo.file.exists) =>
              IF repo.default.given
              THEN repo.result = Returned(repo.default.date)
              ELSE /\ repo.result.threw
                   /\ Contains(repo.result.message,
                               <<"Failed", "to", "read", "timestamp", "file:">>)

\* a saved timestamp was read back although a different default was given
SavedReadBack ==
    /\ Got
    /\ repo.read = "ok"
    /\ repo.saved.given
    /\ repo.default.given
    /\ repo.default.date # repo.saved.date
    /\ repo.result = Returned(repo.saved.date)

\* ------------------------------------------------------------------------
\* DataSourceFactory
\* ------------------------------------------------------------------------
\* the values of SourceAdapter
SourceAdapters ==
    {"Gmail", "ZipFile", "Directory", "None", "Outlook", "EmlFile", "NotionDatabase", "Other"}

\* the fields of DataSourceDependencies
DependencyNames == {"emailClient", "timestampRepository", "zipExtractor", "directoryReader"}

\* results of create: a data source of a class, or an error thrown
Created(class) == [threw |-> FALSE, class |-> class, message |-> <<>>]

Failed(message) == [threw |-> TRUE, class |-> "none", message |-> message]

\* getSourceType() of a data source of the class
getSourceType(class) ==
    CASE class = "GmailDataSource" -> "Gmail"
      [] class = "ZipFileDataSource" -> "ZipFile"
      [] class = "DirectoryDataSource" -> "Directory"
      [] OTHER -> "none"

\* a Gmail source made with an e-mail client alone
GmailWithoutTimestampRepository(dependencies) ==
    IF "emailClient" \notin dependencies
    THEN Failed(<<"Gmail", "data", "source", "requires", "emailClient", "and",
                  "timestampRepository">>)
    ELSE Created("GmailDataSource")

\* dependencies: the fields of the argument that hold a value
createGmailDataSource(dependencies) ==
    IF "emailClient" \notin dependencies \/ "timestampRepository" \notin dependencies
    THEN Failed(<<"Gmail", "data", "source", "requires", "emailClient", "and",
                  "timestampRepository">>)
    ELSE Created("GmailDataSource")

createZipFileDataSource(dependencies) ==
    IF "zipExtractor" \notin dependencies
    THEN Failed(<<"ZipFile", "data", "source", "requires", "zipExtractor">>)
    ELSE Created("ZipFileDataSource")

createDirectoryDataSource(dependencies) ==
    IF "directoryReader" \notin dependencies
    THEN Failed(<<"Directory", "data", "source", "requires", "directoryReader">>)
    ELSE Created("DirectoryDataSource")

\* DataSourceFactory.create(source, logger, dependencies)
create(source, dependencies) ==
    CASE source = "Gmail" -> createGmailDataSource(dependencies)
      [] source = "ZipFile" -> createZipFileDataSource(dependencies)
      [] source = "Directory" -> createDirectoryDataSource(dependencies)
      [] source = "None" ->
            Failed(<<"Cannot", "create", "data", "source", "for", "None", "type">>)
      [] source \in {"Outlook", "EmlFile", "NotionDatabase", "Other"} ->
            Failed(<<"Unsupported", "source", "adapter:", source>>)
      [] OTHER -> Failed(<<"Unhandled", "source", "adapter:", source>>)

FactoryInit ==
    /\ InitWith("idle", <<>>)
    /\ orch = OrchIdle
    /\ ing = IngestIdle
    /\ wf = WorkflowIdle
    /\ repo = RepoIdle
    /\ factory = FactoryIdle

\* a call of DataSourceFactory.create
factoryCreate ==
    /\ \E source \in SourceAdapters, dependencies \in SUBSET DependencyNames :
          factory' = [pc |-> "returned", source |-> source,
                      dependencies |-> dependencies,
                      result |-> create(source, dependencies)]
    /\ UNCHANGED useCaseVars
    /\ UNCHANGED <<orch, ing, wf, repo>>

FactoryNext == factoryCreate

FactorySpec == FactoryInit /\ [][FactoryNext]_vars

\* ------------------------------------------------------------------------
\* Properties of DataSourceFactory
\* ------------------------------------------------------------------------
\* the dependencies the table of supported sources requires
RequiredDependencies(source) ==
    CASE source = "Gmail" -> {"emailClient", "timestampRepository"}
      [] source = "ZipFile" -> {"zipExtractor"}
      [] source = "Directory" -> {"directoryReader"}
      [] OTHER -> {}

\* the required dependencies the call was made without
MissingDependencies == RequiredDependencies(factory.source) \ factory.dependencies

\* C25: create returns a source whose getSourceType() is the requested type
\* for Gmail, ZipFile and Directory given their dependencies; throws 'Cannot
\* create data source for None type' for None and 'Unsupported source
\* adapter: <type>' for Outlook, EmlFile, NotionDatabase and Other; and for
\* a supported type with a dependency missing throws an error that names
\* every missing dependency, no source being made.
FactoryContract ==
    factory.pc = "returned" =>
        LET r == factory.result
            source == factory.source
        IN  /\ (source \in {"Gmail", "ZipFile", "Directory"} /\ MissingDependencies = {}) =>
                  ~r.threw /\ getSourceType(r.class) = source
            /\ source = "None" =>
                  /\ r.threw
                  /\ r.message = <<"Cannot", "create", "data", "source", "for", "None", "type">>
            /\ source \in {"Outlook", "EmlFile", "NotionDatabase", "Other"} =>
                  /\ r.threw
                  /\ r.message = <<"Unsupported", "source", "adapter:", source>>
            /\ MissingDependencies # {} =>
                  /\ r.threw
                  /\ \A name \in MissingDependencies : Contains(r.message, <<name>>)
            /\ r.threw => r.class = "none"

\* create was called for Gmail with an e-mail client but no timestamp
\* repository, and threw
GmailWithoutRepositoryThrew ==
    /\ factory.pc = "returned"
    /\ factory.source = "Gmail"
    /\ factory.dependencies = {"emailClient"}
    /\ factory.result.threw

====
